---- MODULE Spec2Model ----
(***************************************************************************)
(* A model of packages/vt-wasm/src/lib.rs: the wasm wrapper around the avt *)
(* terminal engine.  Strings are sequences of one-character strings.       *)
(***************************************************************************)
EXTENDS Integers, Sequences, FiniteSets, TLC

VARIABLES inner, ret, poisoned, viewMemo, sized, arg, res

vars == <<inner, ret, poisoned, viewMemo, sized, arg, res>>

\* Option::None, JsValue::NULL and "nothing computed yet" are records, so that
\* they compare with every other value of the model.
None == [tag |-> "None"]
NULL == [js |-> "null"]
NoResult == [tag |-> "NoResult"]
Done(v) == [tag |-> "Done", val |-> v]

(***************************************************************************)
(* Colors: avt::Color and ColorValue                                       *)
(***************************************************************************)
Indexed(n) == [tag |-> "Indexed", n |-> n]
RGB(r, g, b) == [tag |-> "RGB", r |-> r, g |-> g, b |-> b]
Rgb(hex) == [tag |-> "Rgb", hex |-> hex]

HexDigits == <<"0", "1", "2", "3", "4", "5", "6", "7",
               "8", "9", "A", "B", "C", "D", "E", "F">>

\* {:X} without the 02 width: no zero padding.
FormatByteNoPad(b) ==
    IF b < 16 THEN <<HexDigits[b + 1]>>
    ELSE <<HexDigits[(b \div 16) + 1], HexDigits[(b % 16) + 1]>>

\* {:02X} of a u8: two uppercase hexadecimal digits, zero padded.
FormatByte(b) == <<HexDigits[(b \div 16) + 1], HexDigits[(b % 16) + 1]>>

map_color_nopad(color) ==
    IF color.tag = "Indexed" THEN Indexed(color.n)
    ELSE Rgb(<<"#">> \o FormatByteNoPad(color.r) \o FormatByteNoPad(color.g)
                     \o FormatByteNoPad(color.b))

map_color(color) ==
    IF color.tag = "Indexed" THEN Indexed(color.n)
    ELSE Rgb(<<"#">> \o FormatByte(color.r) \o FormatByte(color.g)
                     \o FormatByte(color.b))

\* The u8 values the RGB components are drawn from: both nibbles zero, a
\* single digit, the digit/letter border (9, 10, 15, 16) and the spec's 196, 255.
ByteSamples == {0, 1, 9, 10, 15, 16, 171, 196, 255}

U8 == 0..255

EngineColors == {Indexed(n) : n \in U8}
                  \cup {RGB(r, g, b) : r \in ByteSamples, g \in ByteSamples, b \in ByteSamples}

\* The engine the pure-function specifications leave untouched.
IdleInner == [cols |-> 1, rows |-> 1, limit |-> 0, scrollback |-> <<>>, view |-> <<>>,
              cursor |-> [col |-> 0, row |-> 0, visible |-> TRUE]]

\* No call made yet, and no get_view result remembered.
NoCall == [op |-> "create", val |-> NULL, panicked |-> FALSE, again |-> FALSE]
NoMemo == NULL

InitColor ==
    /\ arg \in EngineColors
    /\ res = NoResult
    /\ inner = IdleInner
    /\ ret = NoCall
    /\ poisoned = FALSE
    /\ viewMemo = NoMemo
    /\ sized = <<1, 1>>

MapColor ==
    /\ res = NoResult
    /\ res' = Done(map_color(arg))
    /\ UNCHANGED <<inner, ret, poisoned, viewMemo, sized, arg>>

NextColor == MapColor

SpecColor == InitColor /\ [][NextColor]_vars

\* The value of a hexadecimal digit character, read back from the text.
HexVal(ch) ==
    CASE ch = "0" -> 0 [] ch = "1" -> 1 [] ch = "2" -> 2 [] ch = "3" -> 3
      [] ch = "4" -> 4 [] ch = "5" -> 5 [] ch = "6" -> 6 [] ch = "7" -> 7
      [] ch = "8" -> 8 [] ch = "9" -> 9 [] ch = "A" -> 10 [] ch = "B" -> 11
      [] ch = "C" -> 12 [] ch = "D" -> 13 [] ch = "E" -> 14 [] ch = "F" -> 15
      [] OTHER -> -1

IsUpperHexByte(text, i, b) ==
    /\ HexVal(text[i]) >= 0
    /\ HexVal(text[i + 1]) >= 0
    /\ HexVal(text[i]) * 16 + HexVal(text[i + 1]) = b

\* C9: map_color sends Indexed(n) to Indexed(n) and RGB(r,g,b) to the Rgb text
\* '#' followed by the two-digit uppercase hexadecimal of r, g, b in that
\* order, and no other engine color of the domain maps to the same value.
C9_MapColor ==
    res # NoResult =>
        /\ arg.tag = "Indexed" => res.val = Indexed(arg.n)
        /\ arg.tag = "RGB" =>
              /\ res.val.tag = "Rgb"
              /\ Len(res.val.hex) = 7
              /\ res.val.hex[1] = "#"
              /\ IsUpperHexByte(res.val.hex, 2, arg.r)
              /\ IsUpperHexByte(res.val.hex, 4, arg.g)
              /\ IsUpperHexByte(res.val.hex, 6, arg.b)
        /\ arg = Indexed(196) => res.val = Indexed(196)
        /\ arg = RGB(255, 0, 0) => res.val = Rgb(<<"#", "F", "F", "0", "0", "0", "0">>)
        /\ \A other \in EngineColors : map_color(other) = res.val => other = arg

C9_Witness ==
    /\ arg = RGB(171, 9, 16)
    /\ res = Done(Rgb(<<"#", "A", "B", "0", "9", "1", "0">>))

(***************************************************************************)
(* Cells, pens and spans: merge_cells_to_spans                             *)
(***************************************************************************)
Flags == {"bold", "faint", "italic", "underline", "strikethrough", "blink", "inverse"}

DefaultPen == [fg |-> None, bg |-> None, bold |-> FALSE, faint |-> FALSE,
               italic |-> FALSE, underline |-> FALSE, strikethrough |-> FALSE,
               blink |-> FALSE, inverse |-> FALSE]

Cell(ch, width, pen) == [ch |-> ch, width |-> width, pen |-> pen]

\* pen.foreground().map(|c| map_color(&c))
MapOption(c) == IF c = None THEN None ELSE map_color(c)

\* The attribute tuple of a cell, as the loop body computes it.
CellAttrs(cell) ==
    [fg |-> MapOption(cell.pen.fg), bg |-> MapOption(cell.pen.bg),
     bold |-> cell.pen.bold, faint |-> cell.pen.faint, italic |-> cell.pen.italic,
     underline |-> cell.pen.underline, strikethrough |-> cell.pen.strikethrough,
     blink |-> cell.pen.blink, inverse |-> cell.pen.inverse]

\* A SnapshotSpan: the text and the nine attributes.
Span(text, a) ==
    [text |-> text, fg |-> a.fg, bg |-> a.bg, bold |-> a.bold, faint |-> a.faint,
     italic |-> a.italic, underline |-> a.underline,
     strikethrough |-> a.strikethrough, blink |-> a.blink, inverse |-> a.inverse]

SpanAttrs(span) ==
    [fg |-> span.fg, bg |-> span.bg, bold |-> span.bold, faint |-> span.faint,
     italic |-> span.italic, underline |-> span.underline,
     strikethrough |-> span.strikethrough, blink |-> span.blink,
     inverse |-> span.inverse]

\* A loop that never skips a continuation cell.
is_zero_width_never(cell) == FALSE

is_zero_width(cell) == cell.width = 0

\* A comparison that starts a new span at every cell.
attrs_match_never(a, cur) == FALSE

\* A comparison that forgets the foreground color.
attrs_match_nofg(a, cur) ==
    /\ a.bg = cur.bg
    /\ a.bold = cur.bold
    /\ a.faint = cur.faint
    /\ a.italic = cur.italic
    /\ a.underline = cur.underline
    /\ a.strikethrough = cur.strikethrough
    /\ a.blink = cur.blink
    /\ a.inverse = cur.inverse

attrs_match(a, cur) ==
    /\ a.fg = cur.fg
    /\ a.bg = cur.bg
    /\ a.bold = cur.bold
    /\ a.faint = cur.faint
    /\ a.italic = cur.italic
    /\ a.underline = cur.underline
    /\ a.strikethrough = cur.strikethrough
    /\ a.blink = cur.blink
    /\ a.inverse = cur.inverse

\* The accumulator before the loop: no spans, empty text, default attributes.
MergeStart == [spans |-> <<>>, text |-> <<>>, attrs |-> CellAttrs(Cell(" ", 1, DefaultPen))]

\* One iteration of the loop over line.cells().
MergeCell(st, cell) ==
    IF is_zero_width(cell) THEN st
    ELSE LET a == CellAttrs(cell) IN
         IF attrs_match(a, st.attrs) /\ st.text # <<>>
         THEN [st EXCEPT !.text = Append(st.text, cell.ch)]
         ELSE [spans |-> IF st.text # <<>>
                         THEN Append(st.spans, Span(st.text, st.attrs))
                         ELSE st.spans,
               text |-> <<cell.ch>>,
               attrs |-> a]

RECURSIVE MergeLoop(_, _, _)
MergeLoop(st, line, i) ==
    IF i > Len(line) THEN st ELSE MergeLoop(MergeCell(st, line[i]), line, i + 1)

merge_cells_to_spans(line) ==
    LET st == MergeLoop(MergeStart, line, 1) IN
    IF st.text # <<>> THEN Append(st.spans, Span(st.text, st.attrs)) ELSE st.spans

\* The longest row the merger is given.
MaxCells == 3

MergePens == {DefaultPen,
              [DefaultPen EXCEPT !.fg = Indexed(1)],
              [DefaultPen EXCEPT !.fg = RGB(0, 0, 1)],
              [DefaultPen EXCEPT !.bg = Indexed(1)],
              [DefaultPen EXCEPT !.inverse = TRUE]}

MergeCellSet == {Cell(ch, w, pen) : ch \in {"a", "b"}, w \in {0, 1, 2}, pen \in MergePens}

SeqsUpTo(S, n) == UNION {[1..k -> S] : k \in 0..n}

InitMerge ==
    /\ arg \in SeqsUpTo(MergeCellSet, MaxCells)
    /\ res = NoResult
    /\ inner = IdleInner
    /\ ret = NoCall
    /\ poisoned = FALSE
    /\ viewMemo = NoMemo
    /\ sized = <<1, 1>>

MergeCells ==
    /\ res = NoResult
    /\ res' = Done(merge_cells_to_spans(arg))
    /\ UNCHANGED <<inner, ret, poisoned, viewMemo, sized, arg>>

NextMerge == MergeCells

SpecMerge == InitMerge /\ [][NextMerge]_vars

RECURSIVE Visible(_)
\* The cells of non-zero width, in cell order.
Visible(line) ==
    IF line = <<>> THEN <<>>
    ELSE (IF Head(line).width # 0 THEN <<Head(line)>> ELSE <<>>) \o Visible(Tail(line))

RECURSIVE ConcatText(_)
ConcatText(spans) ==
    IF spans = <<>> THEN <<>> ELSE Head(spans).text \o ConcatText(Tail(spans))

\* The number of characters in the spans before span k.
RECURSIVE Offset(_, _)
Offset(spans, k) == IF k = 1 THEN 0 ELSE Offset(spans, k - 1) + Len(spans[k - 1].text)

\* C2: the concatenated span texts are the characters of the non-zero-width
\* cells in cell order; a zero-width cell contributes no character.
C2_ContentPreserved ==
    res # NoResult =>
        ConcatText(res.val) = [i \in 1..Len(Visible(arg)) |-> Visible(arg)[i].ch]

\* A wide character followed by its zero-width continuation gives one character.
C2_Witness ==
    /\ arg = <<Cell("a", 2, DefaultPen), Cell("b", 0, DefaultPen), Cell("b", 1, DefaultPen)>>
    /\ res # NoResult
    /\ ConcatText(res.val) = <<"a", "b">>

\* C3: no two adjacent spans of the result have equal attribute tuples.
C3_Maximal ==
    res # NoResult =>
        \A k \in 1..(Len(res.val) - 1) : SpanAttrs(res.val[k]) # SpanAttrs(res.val[k + 1])

\* Default-attribute cells first, then a color change and the same index as RGB.
C3_Witness ==
    /\ arg = <<Cell("a", 1, DefaultPen), Cell("b", 1, DefaultPen),
               Cell("a", 1, [DefaultPen EXCEPT !.fg = Indexed(1)])>>
    /\ res # NoResult
    /\ Len(res.val) = 2
    /\ res.val[1].text = <<"a", "b">>
    /\ res.val[1].fg = None

\* C10: every span has a non-empty text and covers a contiguous run of the
\* non-zero-width cells whose attribute tuples all equal the span's.
C10_SpanCoversRun ==
    res # NoResult =>
        /\ \A k \in 1..Len(res.val) : Len(res.val[k].text) > 0
        /\ Offset(res.val, Len(res.val) + 1) = Len(Visible(arg))
        /\ \A k \in 1..Len(res.val) : \A j \in 1..Len(res.val[k].text) :
              /\ Offset(res.val, k) + j <= Len(Visible(arg))
              /\ CellAttrs(Visible(arg)[Offset(res.val, k) + j]) = SpanAttrs(res.val[k])
              /\ Visible(arg)[Offset(res.val, k) + j].ch = res.val[k].text[j]

C10_Witness ==
    /\ arg = <<Cell("a", 1, [DefaultPen EXCEPT !.fg = Indexed(1)]),
               Cell("b", 0, DefaultPen),
               Cell("b", 1, [DefaultPen EXCEPT !.fg = RGB(0, 0, 1)])>>
    /\ res # NoResult
    /\ Len(res.val) = 2
    /\ res.val[1].fg = Indexed(1)
    /\ res.val[2].fg = Rgb(<<"#", "0", "0", "0", "0", "0", "1">>)

(***************************************************************************)
(* The engine (avt), seen through the calls lib.rs makes.  The engine is   *)
(* an external crate: it is modelled by its interface, as a small terminal *)
(* that prints, feeds lines, scrolls into a bounded scrollback and hides   *)
(* or shows its cursor, and whose feed_str may panic on any input.         *)
(***************************************************************************)
\* The largest number of viewport rows a session is created with or resized to.
MaxRows == 2

\* The column counts and the scrollback limits sessions are given.
ColChoices == {1, 2}
ScrollLimits == {0, 1}

BlankCell == Cell(" ", 1, DefaultPen)

BlankLine(cols) == [i \in 1..cols |-> BlankCell]

\* The strings fed: a letter, line feed, carriage return, and the sequences
\* that hide and show the cursor.
Inputs == {"a", "\n", "\r", "ESC[?25l", "ESC[?25h"}

\* avt::Vt::builder().size(cols, rows).scrollback_limit(limit).build()
EngineBuild(cols, rows, limit) ==
    [cols |-> cols, rows |-> rows, limit |-> limit, scrollback |-> <<>>,
     view |-> [r \in 1..rows |-> BlankLine(cols)],
     cursor |-> [col |-> 0, row |-> 0, visible |-> TRUE]]

\* The engine's own invariant: the viewport holds exactly rows lines.
EngineValid(e) == Len(e.view) = e.rows

\* The last n elements of a sequence.
LastN(q, n) == IF Len(q) <= n THEN q ELSE SubSeq(q, Len(q) - n + 1, Len(q))

EnginePrint(e, ch) ==
    [inner |-> [e EXCEPT !.view[e.cursor.row + 1][e.cursor.col + 1] = Cell(ch, 1, DefaultPen),
                         !.cursor.col = IF e.cursor.col + 1 < e.cols
                                        THEN e.cursor.col + 1 ELSE e.cursor.col],
     lines |-> <<e.cursor.row>>]

EngineLineFeed(e) ==
    IF e.cursor.row + 1 < e.rows
    THEN [inner |-> [e EXCEPT !.cursor.row = e.cursor.row + 1], lines |-> <<>>]
    ELSE [inner |-> [e EXCEPT !.scrollback = LastN(Append(e.scrollback, e.view[1]), e.limit),
                              !.view = Append(Tail(e.view), BlankLine(e.cols))],
          lines |-> [i \in 1..e.rows |-> i - 1]]

\* inner.feed_str(s) when it returns: the new engine and changes.lines.
EngineFeedStr(e, s) ==
    CASE s = "a" -> EnginePrint(e, "a")
      [] s = "\n" -> EngineLineFeed(e)
      [] s = "\r" -> [inner |-> [e EXCEPT !.cursor.col = 0], lines |-> <<>>]
      [] s = "ESC[?25l" -> [inner |-> [e EXCEPT !.cursor.visible = FALSE], lines |-> <<>>]
      [] OTHER -> [inner |-> [e EXCEPT !.cursor.visible = TRUE], lines |-> <<>>]

\* The engine a panicking feed_str may leave behind (unspecified): untouched,
\* fully updated, or torn with the last viewport row missing.
PanicStates(e, s) ==
    {e}
      \cup (IF EngineValid(e) THEN {EngineFeedStr(e, s).inner} ELSE {})
      \cup (IF EngineValid(e) /\ e.rows > 1
            THEN {[e EXCEPT !.view = SubSeq(e.view, 1, e.rows - 1)]} ELSE {})

\* A line cut or padded with blanks to cols cells.
FitLine(line, cols) ==
    [i \in 1..cols |-> IF i <= Len(line) THEN line[i] ELSE BlankCell]

\* inner.resize(cols, rows): every line refitted, the viewport cut from the
\* top into the scrollback or padded at the bottom, the cursor clamped.
EngineResize(e, cols, rows) ==
    LET view == [r \in 1..Len(e.view) |-> FitLine(e.view[r], cols)]
        back == [r \in 1..Len(e.scrollback) |-> FitLine(e.scrollback[r], cols)]
        cut == IF Len(view) > rows THEN Len(view) - rows ELSE 0
    IN [e EXCEPT !.cols = cols,
                 !.rows = rows,
                 !.scrollback = LastN(back \o SubSeq(view, 1, cut), e.limit),
                 !.view = SubSeq(view, cut + 1, Len(view))
                            \o [r \in 1..(rows - (Len(view) - cut)) |-> BlankLine(cols)],
                 !.cursor.col = IF e.cursor.col < cols THEN e.cursor.col ELSE cols - 1,
                 !.cursor.row = IF e.cursor.row < rows THEN e.cursor.row ELSE rows - 1]

\* vt.lines(): scrollback followed by viewport, oldest first.
EngineLines(e) == e.scrollback \o e.view

(***************************************************************************)
(* Serialization: serde_wasm_bindgen::to_value                             *)
(***************************************************************************)
Js(v) == [js |-> "value", v |-> v]

\* #[serde(untagged)] ColorValue: a bare number or a bare string.
ser_color(c) == IF c.tag = "Indexed" THEN [num |-> c.n] ELSE [str |-> c.hex]

\* SnapshotSpan with its skip_serializing_if attributes: absent colors and
\* false flags are left out of the object.
ser_span(span) ==
    LET keys == {"text"}
                  \cup (IF span.fg # None THEN {"fg"} ELSE {})
                  \cup (IF span.bg # None THEN {"bg"} ELSE {})
                  \cup {f \in Flags : span[f]}
    IN [k \in keys |-> IF k \in {"fg", "bg"} THEN ser_color(span[k]) ELSE span[k]]

ser_line(line) == [spans |-> [i \in 1..Len(line.spans) |-> ser_span(line.spans[i])]]

ser_snapshot(snap) ==
    [cols |-> snap.cols, rows |-> snap.rows,
     lines |-> [i \in 1..Len(snap.lines) |-> ser_line(snap.lines[i])]]

(***************************************************************************)
(* Snapshots                                                               *)
(***************************************************************************)
SnapshotLine(spans) == [spans |-> spans]

TerminalSnapshot(cols, rows, lines) == [cols |-> cols, rows |-> rows, lines |-> lines]

MergedLines(rows) == [i \in 1..Len(rows) |-> SnapshotLine(merge_cells_to_spans(rows[i]))]

\* A snapshot builder that leaves out rows that produce no visible text.
create_snapshot_skip_blank(vt) ==
    TerminalSnapshot(vt.cols, vt.rows,
        SelectSeq(MergedLines(vt.view),
                  LAMBDA l : \E k \in 1..Len(l.spans) : \E j \in 1..Len(l.spans[k].text) :
                                 l.spans[k].text[j] # " "))

\* A snapshot builder that swaps the two dimensions.
create_snapshot_swapped(vt) == TerminalSnapshot(vt.rows, vt.cols, MergedLines(vt.view))

create_snapshot(vt) == TerminalSnapshot(vt.cols, vt.rows, MergedLines(vt.view))

\* char::is_whitespace for the characters of the model.
IsWhitespace(ch) == ch \in {" ", "\t"}

\* s.text.trim().is_empty()
TrimIsEmpty(text) == \A j \in 1..Len(text) : IsWhitespace(text[j])

\* A test that takes a line for empty as soon as one span is whitespace.
is_empty_line_any(line) ==
    line.spans = <<>> \/ \E k \in 1..Len(line.spans) : TrimIsEmpty(line.spans[k].text)

is_empty_line(line) ==
    line.spans = <<>> \/ \A k \in 1..Len(line.spans) : TrimIsEmpty(line.spans[k].text)

RECURSIVE TrimTrailing(_)
\* while let Some(last) = lines.last() { if is_empty { lines.pop() } else { break } }
TrimTrailing(lines) ==
    IF lines = <<>> THEN lines
    ELSE IF is_empty_line(lines[Len(lines)])
         THEN TrimTrailing(SubSeq(lines, 1, Len(lines) - 1))
         ELSE lines

create_full_snapshot(vt) ==
    TerminalSnapshot(vt.cols, vt.rows, TrimTrailing(MergedLines(EngineLines(vt))))

(***************************************************************************)
(* The exported operations of Vt                                           *)
(***************************************************************************)
Call(op, val) == [op |-> op, val |-> val, panicked |-> FALSE, again |-> FALSE]

\* A feed without the unwind boundary: the panic reaches the caller.
feed_result_propagate(outcome) ==
    IF outcome.panicked THEN [js |-> "panic"] ELSE Js(outcome.lines)

\* match result { Ok(rows) => to_value(&rows), Err(_) => JsValue::NULL }
feed_result(outcome) ==
    IF outcome.panicked THEN NULL ELSE Js(outcome.lines)

\* create(cols, rows, scrollback_limit)
Init ==
    /\ \E cols \in ColChoices, rows \in 1..MaxRows, limit \in ScrollLimits :
          /\ inner = EngineBuild(cols, rows, limit)
          /\ sized = <<cols, rows>>
    /\ ret = NoCall
    /\ poisoned = FALSE
    /\ viewMemo = NoMemo
    /\ arg = None
    /\ res = NoResult

\* feed(&mut self, s): feed_str either returns its changes or panics; the
\* panic is caught by catch_unwind (unwinding panics) and becomes NULL.
Feed ==
    /\ \E s \in Inputs :
          \/ /\ EngineValid(inner)
             /\ inner' = EngineFeedStr(inner, s).inner
             /\ ret' = [op |-> "feed", panicked |-> FALSE, again |-> FALSE,
                        val |-> feed_result([panicked |-> FALSE,
                                             lines |-> EngineFeedStr(inner, s).lines])]
             /\ UNCHANGED poisoned
          \/ /\ \E e \in PanicStates(inner, s) : inner' = e
             /\ ret' = [op |-> "feed", panicked |-> TRUE, again |-> FALSE,
                        val |-> feed_result([panicked |-> TRUE, lines |-> <<>>])]
             /\ poisoned' = TRUE
    /\ viewMemo' = NoMemo
    /\ UNCHANGED <<sized, arg, res>>

\* resize(&mut self, cols, rows)
Resize ==
    /\ \E cols \in ColChoices, rows \in 1..MaxRows :
          /\ inner' = EngineResize(inner, cols, rows)
          /\ sized' = <<cols, rows>>
    /\ ret' = Call("resize", NULL)
    /\ viewMemo' = NoMemo
    /\ UNCHANGED <<poisoned, arg, res>>

\* get_view(&self)
GetView ==
    /\ ret' = [Call("get_view", Js(ser_snapshot(create_snapshot(inner))))
                 EXCEPT !.again = viewMemo # NoMemo]
    /\ viewMemo' = ret'.val
    /\ UNCHANGED <<inner, poisoned, sized, arg, res>>

\* A full-history query that trims the engine's own buffer.
GetAllLinesInPlace ==
    /\ ret' = Call("get_all_lines", Js(ser_snapshot(create_full_snapshot(inner))))
    /\ inner' = [inner EXCEPT !.view =
                    SubSeq(inner.view, 1,
                           Len(TrimTrailing(MergedLines(EngineLines(inner))))
                             - Len(inner.scrollback))]
    /\ UNCHANGED <<poisoned, viewMemo, sized, arg, res>>

\* get_all_lines(&self)
GetAllLines ==
    /\ ret' = Call("get_all_lines", Js(ser_snapshot(create_full_snapshot(inner))))
    /\ UNCHANGED <<inner, poisoned, viewMemo, sized, arg, res>>

\* A cursor query that reports a hidden cursor at the origin.
get_cursor_sentinel(vt) ==
    IF vt.cursor.visible THEN Js(<<vt.cursor.col, vt.cursor.row>>) ELSE Js(<<0, 0>>)

get_cursor(vt) ==
    IF vt.cursor.visible THEN Js(<<vt.cursor.col, vt.cursor.row>>) ELSE NULL

\* get_cursor(&self)
GetCursor ==
    /\ ret' = Call("get_cursor", get_cursor(inner))
    /\ UNCHANGED <<inner, poisoned, viewMemo, sized, arg, res>>

get_size(vt) == Js(<<vt.cols, vt.rows>>)

\* get_size(&self)
GetSize ==
    /\ ret' = Call("get_size", get_size(inner))
    /\ UNCHANGED <<inner, poisoned, viewMemo, sized, arg, res>>

Next == Feed \/ Resize \/ GetView \/ GetAllLines \/ GetCursor \/ GetSize

Spec == Init /\ [][Next]_vars

\* C1: a feed whose engine call panicked returns NULL (no changed rows), and a
\* get_size made on a session that has seen such a feed returns the pair
\* [cols, rows] of the engine.
C1_FeedContained ==
    /\ (ret.op = "feed" /\ ret.panicked) => ret.val = NULL
    /\ (poisoned /\ ret.op = "get_size") =>
          /\ ret.val # NULL
          /\ Len(ret.val.v) = 2
          /\ ret.val.v[1] \in Nat
          /\ ret.val.v[2] \in Nat
          /\ ret.val.v = <<inner.cols, inner.rows>>

C1_Witness ==
    /\ poisoned
    /\ ret.op = "get_size"
    /\ ret.val = Js(<<2, 2>>)
    /\ ~EngineValid(inner)

\* C5: while no feed has panicked, get_view returns exactly rows lines, line i
\* being the merged viewport row i, blank rows included.
C5_ViewRows ==
    (~poisoned /\ ret.op = "get_view") =>
        /\ Len(ret.val.v.lines) = inner.rows
        /\ \A i \in 1..inner.rows :
              ret.val.v.lines[i] = ser_line(SnapshotLine(merge_cells_to_spans(inner.view[i])))

\* After a resize to two rows: text in the first row, the second row blank and kept.
C5_Witness ==
    /\ ~poisoned
    /\ ret.op = "get_view"
    /\ inner.rows = 2
    /\ sized = <<1, 2>>
    /\ Len(ret.val.v.lines) = 2
    /\ ret.val.v.lines[1].spans[1].text = <<"a">>
    /\ ret.val.v.lines[2].spans[1].text = <<" ">>
    /\ Len(inner.scrollback) = 1

\* C6: while no feed has panicked, the cols and rows of the snapshots of
\* get_view and get_all_lines, and the pair get_size returns, are the engine's
\* size, which is the size of the latest resize or of the creation.
C6_SnapshotSize ==
    /\ (~poisoned /\ ret.op \in {"get_view", "get_all_lines"}) =>
          /\ ret.val.v.cols = inner.cols
          /\ ret.val.v.rows = inner.rows
          /\ <<ret.val.v.cols, ret.val.v.rows>> = sized
    /\ (~poisoned /\ ret.op = "get_size") => ret.val = Js(sized)

\* A trimmed full snapshot: two columns, two rows, one line.
C6_Witness ==
    /\ ~poisoned
    /\ ret.op = "get_all_lines"
    /\ ret.val.v.cols = 2
    /\ ret.val.v.rows = 2
    /\ Len(inner.scrollback) = 0
    /\ Len(ret.val.v.lines) = 1

\* C7: get_cursor returns NULL when the engine's cursor is hidden and the
\* pair (col, row) of the engine's cursor, in that order, when it is visible.
C7_Cursor ==
    ret.op = "get_cursor" =>
        /\ inner.cursor.visible => ret.val = Js(<<inner.cursor.col, inner.cursor.row>>)
        /\ ~inner.cursor.visible => ret.val = NULL

\* A hidden cursor away from the origin.
C7_Witness ==
    /\ ret.op = "get_cursor"
    /\ ~inner.cursor.visible
    /\ inner.cursor.col = 1
    /\ inner.cursor.row = 0
    /\ ret.val = NULL

QueryOps == {"get_view", "get_all_lines", "get_cursor", "get_size"}

\* C8: a query leaves the engine as it was, and a get_view made while the
\* result of an earlier get_view is remembered (no feed or resize since)
\* returns that same snapshot.
C8_QueriesPure ==
    [][/\ ret'.op \in QueryOps => inner' = inner
       /\ (ret'.op = "get_view" /\ viewMemo # NoMemo) => ret'.val = viewMemo]_vars

\* A second get_view since the last feed or resize, with text on the screen.
C8_Witness ==
    /\ ret.op = "get_view"
    /\ ret.again
    /\ ret.val = viewMemo
    /\ ret.val.v.lines[1].spans[1].text = <<"a", " ">>

(***************************************************************************)
(* get_all_lines over arbitrary engine buffers                             *)
(***************************************************************************)
\* The largest scrollback and viewport of the buffers get_all_lines is given.
MaxFullScroll == 2
MaxFullRows == 2

InversePen == [DefaultPen EXCEPT !.inverse = TRUE]

\* Rows with a zero-width cell only (no span), blank in one or two spans,
\* blank with a tab, and with text before or after a blank.
FullRows ==
    { <<Cell(" ", 0, DefaultPen)>>,
      <<BlankCell>>,
      <<BlankCell, Cell(" ", 1, InversePen)>>,
      <<Cell("\t", 1, DefaultPen), BlankCell>>,
      <<BlankCell, Cell("a", 1, InversePen)>>,
      <<Cell("a", 1, InversePen), BlankCell>> }

InitFull ==
    /\ \E rows \in 1..MaxFullRows :
          \E view \in [1..rows -> FullRows], back \in SeqsUpTo(FullRows, MaxFullScroll) :
              /\ inner = [cols |-> 2, rows |-> rows, limit |-> MaxFullScroll,
                          scrollback |-> back, view |-> view,
                          cursor |-> [col |-> 0, row |-> 0, visible |-> TRUE]]
              /\ sized = <<2, rows>>
    /\ ret = NoCall
    /\ poisoned = FALSE
    /\ viewMemo = NoMemo
    /\ arg = None
    /\ res = NoResult

NextFull == GetAllLines

SpecFull == InitFull /\ [][NextFull]_vars

\* A serialized line with no visible text: no spans, or whitespace only.
IsBlankJsLine(l) ==
    \A k \in 1..Len(l.spans) : \A j \in 1..Len(l.spans[k].text) :
        l.spans[k].text[j] \in {" ", "\t"}

\* The serialized merged lines of the whole buffer, untrimmed.
AllJsLines == [i \in 1..Len(EngineLines(inner)) |->
                  ser_line(SnapshotLine(merge_cells_to_spans(EngineLines(inner)[i])))]

\* C4: the lines get_all_lines returns are a prefix of the merged lines of
\* scrollback followed by viewport; every line cut off is empty; the result
\* is empty or ends with a non-empty line, so that it is the longest such prefix.
C4_TrimTrailing ==
    ret.op = "get_all_lines" =>
        LET out == ret.val.v.lines IN
        /\ Len(out) <= Len(AllJsLines)
        /\ out = SubSeq(AllJsLines, 1, Len(out))
        /\ \A i \in (Len(out) + 1)..Len(AllJsLines) : IsBlankJsLine(AllJsLines[i])
        /\ out # <<>> => ~IsBlankJsLine(out[Len(out)])

\* A leading and an interior blank line kept, two trailing blank lines cut.
C4_Witness ==
    /\ ret.op = "get_all_lines"
    /\ Len(AllJsLines) = 4
    /\ Len(ret.val.v.lines) = 2
    /\ IsBlankJsLine(ret.val.v.lines[1])
    /\ Len(ret.val.v.lines[2].spans) = 2

====
